---- MODULE Spec2Model ----
(***************************************************************************)
(* A model of OrderBookImpl (src/src/orderbook.rs): a direct-mapped price  *)
(* table per side, a three-tier occupancy bitmap (L1, L2, root), a cached  *)
(* best price per side and a running total per side.                       *)
(*                                                                         *)
(* Scale.  The source has 64-bit words, L2_SIZE = 16, CAP = 65536, i64     *)
(* prices and u64 quantities.  The model keeps the structure and shrinks   *)
(* the sizes: WORD_BITS bits per word, L2_SIZE L2 words, CAP =             *)
(* L2_SIZE * WORD_BITS * WORD_BITS slots, prices in I64_MIN..I64_MAX       *)
(* (2 * HALF_WINDOWS aligned windows of CAP prices, as i64 is 2^48 windows *)
(* of 65536) and quantities in 0..U64_MAX.                                 *)
(*                                                                         *)
(* A machine word is modelled by the set of the positions of its set bits: *)
(* w == 0 is w = {}, w | (1 << b) is w \cup {b}, w & !(1 << b) is w \ {b}, *)
(* 63 - w.leading_zeros() is the largest element and w.trailing_zeros()    *)
(* the smallest.                                                           *)
(***************************************************************************)
EXTENDS Integers, Sequences, FiniteSets

\* ------------------------------------------------------------------ bounds
\* bits per bitmap word (64 in the source: the `>> 6` and `& 63`)
WORD_BITS == 2
\* number of L2 words (16 in the source)
L2_SIZE == 2
\* the price type spans 2 * HALF_WINDOWS windows of CAP prices (2^47 halves in i64)
HALF_WINDOWS == 1
\* the largest quantity (u64::MAX in the source)
U64_MAX == 3
\* the number of apply_update calls of a run
MaxOps == 3
\* the largest n passed to get_top_levels
MaxN == 3

\* -------------------------------------------------------------- constants
L1_SIZE == L2_SIZE * WORD_BITS
CAP == L1_SIZE * WORD_BITS
MASK == CAP - 1
I64_MIN == -(HALF_WINDOWS * CAP)
I64_MAX == HALF_WINDOWS * CAP - 1

Price == I64_MIN..I64_MAX
Quantity == 0..U64_MAX
Side == {"Bid", "Ask"}
Word == SUBSET (0..(WORD_BITS - 1))
None == <<"None">>
Some(x) == <<"Some", x>>

\* 63 - w.leading_zeros(): the position of the most significant set bit
Msb(w) == CHOOSE b \in w : \A c \in w : c <= b
\* w.trailing_zeros(): the position of the least significant set bit
Lsb(w) == CHOOSE b \in w : \A c \in w : b <= c

\* w | (1u64 << b)
bit_set(w, b) == w \cup {b}
\* Mutant of bit_clear: the mask is not negated, w & (1u64 << b).
bit_clear_unnegated(w, b) == w \cap {b}
\* w & !(1u64 << b)
bit_clear(w, b) == w \ {b}
\* (w & (1u64 << b)) != 0
bit_test(w, b) == b \in w

\* (price as usize) & MASK: the low bits of the two's complement of price
SlotIndex(price) == price % CAP

\* u64 and i64 arithmetic as a release build computes it (wrapping)
WrapU64(x) == x % (U64_MAX + 1)
WrapI64(x) == ((x - I64_MIN) % (I64_MAX - I64_MIN + 1)) + I64_MIN

\* Mutant of set_total: the old quantity of the slot is not taken off.
set_total_adds(total, quantity, old_qty) == WrapU64(total + quantity)
\* total + quantity - old_qty, left to right in u64
set_total(total, quantity, old_qty) == WrapU64(WrapU64(total + quantity) - old_qty)
\* total -= old_qty in u64
remove_total(total, old_qty) == WrapU64(total - old_qty)

\* ----------------------------------------------------------------- inputs
\* The slots the updates land on: the two first of an L1 word, the first of
\* the next L1 word (same L2 word), and the last slot (last L2 word).
IdxInputs == {0, 1, WORD_BITS, CAP - 1}
\* The lowest and the highest window of the price type.
WindowInputs == {-HALF_WINDOWS, HALF_WINDOWS - 1}
\* Prices of the updates: both sentinels (I64_MIN, I64_MAX) are among them,
\* and every slot is hit by two aliasing prices.
PriceInputs == {w * CAP + i : w \in WindowInputs, i \in IdxInputs}
QuantityInputs == {0, 1, U64_MAX}
NInputs == 0..MaxN

Set(price, quantity, side) ==
    [kind |-> "Set", price |-> price, quantity |-> quantity, side |-> side]
Remove(price, side) ==
    [kind |-> "Remove", price |-> price, quantity |-> 0, side |-> side]
SetInputs == {Set(p, q, s) : p \in PriceInputs, q \in QuantityInputs, s \in Side}
RemoveInputs == {Remove(p, s) : p \in PriceInputs, s \in Side}
UpdateInputs == SetInputs \cup RemoveInputs

\* ------------------------------------------------------------------ state
VARIABLES
    ob,        \* the OrderBookImpl
    nops,      \* apply_update calls made so far
    wrapped,   \* some u64 addition or subtraction of a completed call wrapped
    panicked,  \* a call aborted on arithmetic overflow (overflow checks on)
    aliased,   \* a positive Set landed on a live slot holding another price
    collided,  \* some update landed on a live slot holding another price
    sentinel,  \* some update used the sentinel price of its side
    windows    \* the aligned windows of CAP prices the updates' prices lay in

vars == <<ob, nops, wrapped, panicked, aliased, collided, sentinel, windows>>

Slots == 0..(CAP - 1)

\* impl Default for OrderBookImpl
Default ==
    [ best_bid |-> I64_MIN,
      best_ask |-> I64_MAX,
      total_bid_qty |-> 0,
      total_ask_qty |-> 0,
      root_bid |-> {},
      root_ask |-> {},
      bid_l2 |-> [j \in 0..(L2_SIZE - 1) |-> {}],
      ask_l2 |-> [j \in 0..(L2_SIZE - 1) |-> {}],
      bid_l1 |-> [j \in 0..(L1_SIZE - 1) |-> {}],
      ask_l1 |-> [j \in 0..(L1_SIZE - 1) |-> {}],
      bid_quantities |-> [i \in Slots |-> 0],
      ask_quantities |-> [i \in Slots |-> 0],
      bid_prices |-> [i \in Slots |-> 0],
      ask_prices |-> [i \in Slots |-> 0] ]

\* ----------------------------------------------------- best recomputation
\* Mutant of find_new_best_bid: with an empty root the best is left as it is.
find_new_best_bid_keeps(self) ==
    IF self.root_bid = {} THEN self
    ELSE LET l2_idx == Msb(self.root_bid)
             l2_word == self.bid_l2[l2_idx]
             l1_offset == Msb(l2_word)
             l1_idx == l2_idx * WORD_BITS + l1_offset
             l1_word == self.bid_l1[l1_idx]
             bit_offset == Msb(l1_word)
             final_idx == l1_idx * WORD_BITS + bit_offset
         IN  [self EXCEPT !.best_bid = self.bid_prices[final_idx]]

find_new_best_bid(self) ==
    IF self.root_bid = {} THEN [self EXCEPT !.best_bid = I64_MIN]
    ELSE LET l2_idx == Msb(self.root_bid)
             l2_word == self.bid_l2[l2_idx]
             l1_offset == Msb(l2_word)
             l1_idx == l2_idx * WORD_BITS + l1_offset
             l1_word == self.bid_l1[l1_idx]
             bit_offset == Msb(l1_word)
             final_idx == l1_idx * WORD_BITS + bit_offset
         IN  [self EXCEPT !.best_bid = self.bid_prices[final_idx]]

find_new_best_ask(self) ==
    IF self.root_ask = {} THEN [self EXCEPT !.best_ask = I64_MAX]
    ELSE LET l2_idx == Lsb(self.root_ask)
             l2_word == self.ask_l2[l2_idx]
             l1_offset == Lsb(l2_word)
             l1_idx == l2_idx * WORD_BITS + l1_offset
             l1_word == self.ask_l1[l1_idx]
             bit_offset == Lsb(l1_word)
             final_idx == l1_idx * WORD_BITS + bit_offset
         IN  [self EXCEPT !.best_ask = self.ask_prices[final_idx]]

\* ------------------------------------------------- next occupied slot scans
\* `1u64 << s` overflows when s reaches the word size: a build with overflow
\* checks panics there, one without takes the shift amount modulo the size.
shl_overflows(s) == s >= WORD_BITS
\* Mutant of bits_below: the bit at position s is kept in the mask.
bits_below_or_at(s) == {b \in 0..(WORD_BITS - 1) : b <= s % WORD_BITS}
\* (1u64 << s).wrapping_sub(1) without overflow checks: the bits under s % 64
bits_below(s) == {b \in 0..(WORD_BITS - 1) : b < s % WORD_BITS}
\* !w
bit_not(w) == (0..(WORD_BITS - 1)) \ w
\* The outcome of a call that panics.
Panic == <<"Panic">>

\* for i in (0..start_l1_idx).rev(): the first non-zero word of bid_l1, from i down
RECURSIVE ScanDown(_, _)
ScanDown(self, i) ==
    IF i < 0 THEN None
    ELSE IF self.bid_l1[i] # {} THEN Some(i * WORD_BITS + Msb(self.bid_l1[i]))
    ELSE ScanDown(self, i - 1)

find_next_highest_active_idx(self, start_idx) ==
    LET start_l1_idx == start_idx \div WORD_BITS
        current_bit == start_idx % WORD_BITS
        mask == bits_below(current_bit)
        word == self.bid_l1[start_l1_idx] \cap mask
    IN  IF word # {} THEN Some(start_l1_idx * WORD_BITS + Msb(word))
        ELSE ScanDown(self, start_l1_idx - 1)

\* for i in (start_l1_idx + 1)..L1_SIZE: the first non-zero word of ask_l1, from i up
RECURSIVE ScanUp(_, _)
ScanUp(self, i) ==
    IF i >= L1_SIZE THEN None
    ELSE IF self.ask_l1[i] # {} THEN Some(i * WORD_BITS + Lsb(self.ask_l1[i]))
    ELSE ScanUp(self, i + 1)

\* The result in a build without overflow checks.
find_next_lowest_active_idx(self, start_idx) ==
    LET start_l1_idx == start_idx \div WORD_BITS
        current_bit == start_idx % WORD_BITS
        mask == bit_not(bits_below(current_bit + 1))
        word == self.ask_l1[start_l1_idx] \cap mask
    IN  IF word # {} THEN Some(start_l1_idx * WORD_BITS + Lsb(word))
        ELSE ScanUp(self, start_l1_idx + 1)

\* What a call of find_next_lowest_active_idx can do, over the builds: with
\* overflow checks `1u64 << (current_bit + 1)` panics on the last bit of a word.
find_next_lowest_outcomes(self, start_idx) ==
    {find_next_lowest_active_idx(self, start_idx)}
        \cup (IF shl_overflows((start_idx % WORD_BITS) + 1) THEN {Panic} ELSE {})

\* ---------------------------------------------------------------- updates
\* Mutant of update_bid: the zero branch runs without the test `old_qty > 0`.
update_bid_unguarded(self, idx, price, quantity) ==
    LET old_qty == self.bid_quantities[idx]
        s0 == [self EXCEPT !.bid_quantities[idx] = quantity,
                           !.bid_prices[idx] = price]
        l1_idx == idx \div WORD_BITS
        l1_bit == idx % WORD_BITS
        l2_idx == l1_idx \div WORD_BITS
        l2_bit == l1_idx % WORD_BITS
    IN  IF quantity = 0
        THEN IF TRUE
             THEN LET l1_val == bit_clear(s0.bid_l1[l1_idx], l1_bit)
                      s1 == [s0 EXCEPT !.total_bid_qty = remove_total(@, old_qty),
                                       !.bid_l1[l1_idx] = l1_val]
                      l2_val == bit_clear(s1.bid_l2[l2_idx], l2_bit)
                      s2 == IF l1_val = {}
                            THEN [s1 EXCEPT !.bid_l2[l2_idx] = l2_val,
                                            !.root_bid = IF l2_val = {}
                                                         THEN bit_clear(@, l2_idx)
                                                         ELSE @]
                            ELSE s1
                  IN  IF price = s2.best_bid THEN find_new_best_bid(s2) ELSE s2
             ELSE s0
        ELSE LET s1 == [s0 EXCEPT !.total_bid_qty = set_total(@, quantity, old_qty)]
                 l2_val == s1.bid_l2[l2_idx]
                 s2 == IF old_qty = 0
                       THEN LET s3 == [s1 EXCEPT !.bid_l1[l1_idx] = bit_set(@, l1_bit)]
                            IN  IF ~bit_test(l2_val, l2_bit)
                                THEN [s3 EXCEPT !.bid_l2[l2_idx] = bit_set(l2_val, l2_bit),
                                                !.root_bid = bit_set(@, l2_idx)]
                                ELSE s3
                       ELSE s1
             IN  IF price > s2.best_bid THEN [s2 EXCEPT !.best_bid = price] ELSE s2

update_bid(self, idx, price, quantity) ==
    LET old_qty == self.bid_quantities[idx]
        s0 == [self EXCEPT !.bid_quantities[idx] = quantity,
                           !.bid_prices[idx] = price]
        l1_idx == idx \div WORD_BITS
        l1_bit == idx % WORD_BITS
        l2_idx == l1_idx \div WORD_BITS
        l2_bit == l1_idx % WORD_BITS
    IN  IF quantity = 0
        THEN IF old_qty > 0
             THEN LET l1_val == bit_clear(s0.bid_l1[l1_idx], l1_bit)
                      s1 == [s0 EXCEPT !.total_bid_qty = remove_total(@, old_qty),
                                       !.bid_l1[l1_idx] = l1_val]
                      l2_val == bit_clear(s1.bid_l2[l2_idx], l2_bit)
                      s2 == IF l1_val = {}
                            THEN [s1 EXCEPT !.bid_l2[l2_idx] = l2_val,
                                            !.root_bid = IF l2_val = {}
                                                         THEN bit_clear(@, l2_idx)
                                                         ELSE @]
                            ELSE s1
                  IN  IF price = s2.best_bid THEN find_new_best_bid(s2) ELSE s2
             ELSE s0
        ELSE LET s1 == [s0 EXCEPT !.total_bid_qty = set_total(@, quantity, old_qty)]
                 l2_val == s1.bid_l2[l2_idx]
                 s2 == IF old_qty = 0
                       THEN LET s3 == [s1 EXCEPT !.bid_l1[l1_idx] = bit_set(@, l1_bit)]
                            IN  IF ~bit_test(l2_val, l2_bit)
                                THEN [s3 EXCEPT !.bid_l2[l2_idx] = bit_set(l2_val, l2_bit),
                                                !.root_bid = bit_set(@, l2_idx)]
                                ELSE s3
                       ELSE s1
             IN  IF price > s2.best_bid THEN [s2 EXCEPT !.best_bid = price] ELSE s2

\* Mutant of update_ask: the best is recomputed whenever a level is emptied,
\* without the test `price == self.best_ask`.
update_ask_recomputes_always(self, idx, price, quantity) ==
    LET old_qty == self.ask_quantities[idx]
        s0 == [self EXCEPT !.ask_quantities[idx] = quantity,
                           !.ask_prices[idx] = price]
        l1_idx == idx \div WORD_BITS
        l1_bit == idx % WORD_BITS
        l2_idx == l1_idx \div WORD_BITS
        l2_bit == l1_idx % WORD_BITS
    IN  IF quantity = 0
        THEN IF old_qty > 0
             THEN LET l1_val == bit_clear(s0.ask_l1[l1_idx], l1_bit)
                      s1 == [s0 EXCEPT !.total_ask_qty = remove_total(@, old_qty),
                                       !.ask_l1[l1_idx] = l1_val]
                      l2_val == bit_clear(s1.ask_l2[l2_idx], l2_bit)
                      s2 == IF l1_val = {}
                            THEN [s1 EXCEPT !.ask_l2[l2_idx] = l2_val,
                                            !.root_ask = IF l2_val = {}
                                                         THEN bit_clear(@, l2_idx)
                                                         ELSE @]
                            ELSE s1
                  IN  find_new_best_ask(s2)
             ELSE s0
        ELSE LET s1 == [s0 EXCEPT !.total_ask_qty = set_total(@, quantity, old_qty)]
                 l2_val == s1.ask_l2[l2_idx]
                 s2 == IF old_qty = 0
                       THEN LET s3 == [s1 EXCEPT !.ask_l1[l1_idx] = bit_set(@, l1_bit)]
                            IN  IF ~bit_test(l2_val, l2_bit)
                                THEN [s3 EXCEPT !.ask_l2[l2_idx] = bit_set(l2_val, l2_bit),
                                                !.root_ask = bit_set(@, l2_idx)]
                                ELSE s3
                       ELSE s1
             IN  IF price < s2.best_ask THEN [s2 EXCEPT !.best_ask = price] ELSE s2

update_ask(self, idx, price, quantity) ==
    LET old_qty == self.ask_quantities[idx]
        s0 == [self EXCEPT !.ask_quantities[idx] = quantity,
                           !.ask_prices[idx] = price]
        l1_idx == idx \div WORD_BITS
        l1_bit == idx % WORD_BITS
        l2_idx == l1_idx \div WORD_BITS
        l2_bit == l1_idx % WORD_BITS
    IN  IF quantity = 0
        THEN IF old_qty > 0
             THEN LET l1_val == bit_clear(s0.ask_l1[l1_idx], l1_bit)
                      s1 == [s0 EXCEPT !.total_ask_qty = remove_total(@, old_qty),
                                       !.ask_l1[l1_idx] = l1_val]
                      l2_val == bit_clear(s1.ask_l2[l2_idx], l2_bit)
                      s2 == IF l1_val = {}
                            THEN [s1 EXCEPT !.ask_l2[l2_idx] = l2_val,
                                            !.root_ask = IF l2_val = {}
                                                         THEN bit_clear(@, l2_idx)
                                                         ELSE @]
                            ELSE s1
                  IN  IF price = s2.best_ask THEN find_new_best_ask(s2) ELSE s2
             ELSE s0
        ELSE LET s1 == [s0 EXCEPT !.total_ask_qty = set_total(@, quantity, old_qty)]
                 l2_val == s1.ask_l2[l2_idx]
                 s2 == IF old_qty = 0
                       THEN LET s3 == [s1 EXCEPT !.ask_l1[l1_idx] = bit_set(@, l1_bit)]
                            IN  IF ~bit_test(l2_val, l2_bit)
                                THEN [s3 EXCEPT !.ask_l2[l2_idx] = bit_set(l2_val, l2_bit),
                                                !.root_ask = bit_set(@, l2_idx)]
                                ELSE s3
                       ELSE s1
             IN  IF price < s2.best_ask THEN [s2 EXCEPT !.best_ask = price] ELSE s2

\* Mutant of apply_update: a Remove on the ask side is sent to update_bid.
apply_update_remove_on_bid(self, update) ==
    LET idx == SlotIndex(update.price)
    IN  IF update.kind = "Set"
        THEN IF update.side = "Bid"
             THEN update_bid(self, idx, update.price, update.quantity)
             ELSE update_ask(self, idx, update.price, update.quantity)
        ELSE update_bid(self, idx, update.price, 0)

apply_update(self, update) ==
    LET idx == SlotIndex(update.price)
    IN  IF update.kind = "Set"
        THEN IF update.side = "Bid"
             THEN update_bid(self, idx, update.price, update.quantity)
             ELSE update_ask(self, idx, update.price, update.quantity)
        ELSE IF update.side = "Bid"
             THEN update_bid(self, idx, update.price, 0)
             ELSE update_ask(self, idx, update.price, 0)

\* ------------------------------------------------------------------ reads
get_spread(self) ==
    IF self.best_bid = I64_MIN \/ self.best_ask = I64_MAX
    THEN None
    ELSE Some(WrapI64(self.best_ask - self.best_bid))

get_best_bid(self) ==
    IF self.best_bid = I64_MIN THEN None ELSE Some(self.best_bid)

get_best_ask(self) ==
    IF self.best_ask = I64_MAX THEN None ELSE Some(self.best_ask)

\* Mutant of get_quantity_at: a zero quantity is reported as a level.
get_quantity_at_any(self, price, side) ==
    LET idx == SlotIndex(price)
        q == IF side = "Bid" THEN self.bid_quantities[idx]
                             ELSE self.ask_quantities[idx]
    IN  Some(q)

get_quantity_at(self, price, side) ==
    LET idx == SlotIndex(price)
        q == IF side = "Bid" THEN self.bid_quantities[idx]
                             ELSE self.ask_quantities[idx]
    IN  IF q > 0 THEN Some(q) ELSE None

get_total_quantity(self, side) ==
    IF side = "Bid" THEN self.total_bid_qty ELSE self.total_ask_qty

\* The loop of get_top_levels for Bid, entered at slot idx with `out` collected.
RECURSIVE BidWalk(_, _, _, _, _)
BidWalk(self, n, start_idx, idx, out) ==
    LET q == self.bid_quantities[idx]
        out1 == IF q > 0 THEN Append(out, <<self.bid_prices[idx], q>>) ELSE out
        next == IF idx = 0 THEN CAP - 1 ELSE idx - 1
    IN  IF q > 0 /\ Len(out1) >= n THEN out1
        ELSE IF next = start_idx THEN out1
        ELSE BidWalk(self, n, start_idx, next, out1)

\* Mutant of AskWalk: the walk stops at the last slot instead of wrapping to 0.
RECURSIVE AskWalk_no_wrap(_, _, _, _, _)
AskWalk_no_wrap(self, n, start_idx, idx, out) ==
    LET q == self.ask_quantities[idx]
        out1 == IF q > 0 THEN Append(out, <<self.ask_prices[idx], q>>) ELSE out
    IN  IF q > 0 /\ Len(out1) >= n THEN out1
        ELSE IF idx = CAP - 1 \/ idx + 1 = start_idx THEN out1
        ELSE AskWalk_no_wrap(self, n, start_idx, idx + 1, out1)

\* The loop of get_top_levels for Ask.
RECURSIVE AskWalk(_, _, _, _, _)
AskWalk(self, n, start_idx, idx, out) ==
    LET q == self.ask_quantities[idx]
        out1 == IF q > 0 THEN Append(out, <<self.ask_prices[idx], q>>) ELSE out
        next == IF idx = CAP - 1 THEN 0 ELSE idx + 1
    IN  IF q > 0 /\ Len(out1) >= n THEN out1
        ELSE IF next = start_idx THEN out1
        ELSE AskWalk(self, n, start_idx, next, out1)

get_top_levels(self, side, n) ==
    IF side = "Bid"
    THEN IF self.best_bid = I64_MIN THEN <<>>
         ELSE LET start_idx == SlotIndex(self.best_bid)
              IN  BidWalk(self, n, start_idx, start_idx, <<>>)
    ELSE IF self.best_ask = I64_MAX THEN <<>>
         ELSE LET start_idx == SlotIndex(self.best_ask)
              IN  AskWalk(self, n, start_idx, start_idx, <<>>)

\* ------------------------------------------------------ overflow of a call
\* The quantity an update writes (Remove writes 0).
WrittenQuantity(update) == IF update.kind = "Set" THEN update.quantity ELSE 0

\* Some step of `total + quantity - old_qty` or `total -= old_qty` leaves the
\* u64 range: a build with overflow checks panics there, one without wraps.
update_overflows(self, update) ==
    LET idx == SlotIndex(update.price)
        quantity == WrittenQuantity(update)
        old_qty == IF update.side = "Bid" THEN self.bid_quantities[idx]
                                          ELSE self.ask_quantities[idx]
        total == get_total_quantity(self, update.side)
    IN  IF quantity = 0
        THEN old_qty > 0 /\ total - old_qty < 0
        ELSE \/ total + quantity > U64_MAX
             \/ WrapU64(total + quantity) - old_qty < 0

\* `self.best_ask - self.best_bid` leaves the i64 range.
spread_overflows(self) ==
    /\ self.best_bid # I64_MIN
    /\ self.best_ask # I64_MAX
    /\ self.best_ask - self.best_bid \notin Price

\* The update lands on a live slot that holds another price.
update_collides(self, update) ==
    LET idx == SlotIndex(update.price)
        old_qty == IF update.side = "Bid" THEN self.bid_quantities[idx]
                                          ELSE self.ask_quantities[idx]
        old_price == IF update.side = "Bid" THEN self.bid_prices[idx]
                                            ELSE self.ask_prices[idx]
    IN  old_qty > 0 /\ old_price # update.price

\* A positive quantity written over a live slot that holds another price:
\* two simultaneously live prices share the masked index.
update_aliases(self, update) ==
    WrittenQuantity(update) > 0 /\ update_collides(self, update)

\* The price of the update is the value that stands for "no best" on its side.
uses_sentinel(update) ==
    \/ update.side = "Bid" /\ update.price = I64_MIN
    \/ update.side = "Ask" /\ update.price = I64_MAX

\* The aligned window [k * CAP, (k + 1) * CAP) the price lies in: its high bits.
Window(price) == (price - SlotIndex(price)) \div CAP

\* ---------------------------------------------------------------- actions
Init ==
    /\ ob = Default
    /\ nops = 0
    /\ wrapped = FALSE
    /\ panicked = FALSE
    /\ aliased = FALSE
    /\ collided = FALSE
    /\ sentinel = FALSE
    /\ windows = {}

\* ob.apply_update(update) returns.  When its arithmetic overflows the build
\* has no overflow checks and the total wraps.
ApplyUpdate(update) ==
    /\ ~panicked
    /\ nops < MaxOps
    /\ ob' = apply_update(ob, update)
    /\ nops' = nops + 1
    /\ wrapped' = (wrapped \/ update_overflows(ob, update))
    /\ aliased' = (aliased \/ update_aliases(ob, update))
    /\ collided' = (collided \/ update_collides(ob, update))
    /\ sentinel' = (sentinel \/ uses_sentinel(update))
    /\ windows' = windows \cup {Window(update.price)}
    /\ UNCHANGED panicked

\* ob.apply_update(update) panics on an overflowing `+` or `-` (overflow
\* checks on, so nothing wrapped before).  The call never returns and the
\* book is not used again.
PanicUpdate(update) ==
    /\ ~panicked
    /\ ~wrapped
    /\ nops < MaxOps
    /\ update_overflows(ob, update)
    /\ panicked' = TRUE
    /\ UNCHANGED <<ob, nops, wrapped, aliased, collided, sentinel, windows>>

\* ob.get_spread() panics on an overflowing `-` (overflow checks on).
PanicSpread ==
    /\ ~panicked
    /\ ~wrapped
    /\ spread_overflows(ob)
    /\ panicked' = TRUE
    /\ UNCHANGED <<ob, nops, wrapped, aliased, collided, sentinel, windows>>

Next ==
    \/ \E update \in UpdateInputs : ApplyUpdate(update)
    \/ \E update \in UpdateInputs : PanicUpdate(update)
    \/ PanicSpread

Spec == Init /\ [][Next]_vars

\* The runs in which every call returns. A book is read only in these: a call
\* that panics ends the use of the book.
NextReturns == \E update \in UpdateInputs : ApplyUpdate(update)

SpecReturns == Init /\ [][NextReturns]_vars

\* ------------------------------------------------------------------ types
TypeOK ==
    /\ ob.best_bid \in Price /\ ob.best_ask \in Price
    /\ ob.total_bid_qty \in Quantity /\ ob.total_ask_qty \in Quantity
    /\ ob.root_bid \subseteq 0..(L2_SIZE - 1)
    /\ ob.root_ask \subseteq 0..(L2_SIZE - 1)
    /\ \A j \in 0..(L2_SIZE - 1) : ob.bid_l2[j] \in Word /\ ob.ask_l2[j] \in Word
    /\ \A j \in 0..(L1_SIZE - 1) : ob.bid_l1[j] \in Word /\ ob.ask_l1[j] \in Word
    /\ \A i \in Slots : /\ ob.bid_quantities[i] \in Quantity
                        /\ ob.ask_quantities[i] \in Quantity
                        /\ ob.bid_prices[i] \in Price
                        /\ ob.ask_prices[i] \in Price
    /\ nops \in 0..MaxOps
    /\ windows \subseteq {Window(p) : p \in Price}

\* ------------------------------------------------------- what a side holds
Quantities(self, side) ==
    IF side = "Bid" THEN self.bid_quantities ELSE self.ask_quantities
Prices(self, side) == IF side = "Bid" THEN self.bid_prices ELSE self.ask_prices
L1(self, side) == IF side = "Bid" THEN self.bid_l1 ELSE self.ask_l1
L2(self, side) == IF side = "Bid" THEN self.bid_l2 ELSE self.ask_l2
Root(self, side) == IF side = "Bid" THEN self.root_bid ELSE self.root_ask

\* The slots of a side with a non-zero quantity, and the prices they hold.
OccupiedSlots(self, side) == {i \in Slots : Quantities(self, side)[i] # 0}
OccupiedPrices(self, side) == {Prices(self, side)[i] : i \in OccupiedSlots(self, side)}

MaxOf(S) == CHOOSE x \in S : \A y \in S : y <= x
MinOf(S) == CHOOSE x \in S : \A y \in S : x <= y

RECURSIVE SumOver(_, _)
SumOver(f, S) ==
    IF S = {} THEN 0
    ELSE LET i == CHOOSE i \in S : TRUE IN f[i] + SumOver(f, S \ {i})

\* ------------------------------------------------------------------ claims

\* C1: bitmap consistency. In every reachable state and for each side, L1 bit
\* i is set iff slot i holds a non-zero quantity, L2 bit j is set iff L1 word
\* j is non-zero, and root bit k is set iff L2 word k is non-zero.
C1_BitmapConsistency ==
    \A side \in Side :
        /\ \A i \in Slots :
               bit_test(L1(ob, side)[i \div WORD_BITS], i % WORD_BITS)
                   <=> Quantities(ob, side)[i] # 0
        /\ \A j \in 0..(L1_SIZE - 1) :
               bit_test(L2(ob, side)[j \div WORD_BITS], j % WORD_BITS)
                   <=> L1(ob, side)[j] # {}
        /\ \A k \in 0..(WORD_BITS - 1) :
               bit_test(Root(ob, side), k)
                   <=> (k < L2_SIZE /\ L2(ob, side)[k] # {})

\* C1 witness: two aliasing prices were written over each other and the slot
\* was emptied afterwards, which cleared its bit in all three tiers.
C1_Witness ==
    /\ aliased
    /\ ob.root_bid = {}
    /\ ob.root_ask = {}

\* No update so far landed on a live slot holding another price or used the
\* sentinel price of its side: every documented precondition on the caller
\* has been met.
Clean == ~collided /\ ~sentinel
\* The update keeps the history clean when applied to self.
KeepsClean(self, update) == ~update_collides(self, update) /\ ~uses_sentinel(update)

\* get_best_bid() is the maximum price among the occupied bid slots (None if
\* there is none), get_best_ask() the minimum among the occupied ask slots.
BestCorrect(self) ==
    /\ get_best_bid(self) = IF OccupiedSlots(self, "Bid") = {} THEN None
                            ELSE Some(MaxOf(OccupiedPrices(self, "Bid")))
    /\ get_best_ask(self) = IF OccupiedSlots(self, "Ask") = {} THEN None
                            ELSE Some(MinOf(OccupiedPrices(self, "Ask")))

\* C2: best correctness. After any sequence of updates get_best_bid() is the
\* maximum occupied bid price and get_best_ask() the minimum occupied ask
\* price (None on an empty side); in particular it is so right after the
\* current best level is removed while other levels remain. (Stated for the
\* sequences on which no two prices ever meet in a slot and no sentinel price
\* is used, which the claim covers.)
C2_BestCorrect ==
    Clean =>
        /\ BestCorrect(ob)
        /\ \A u \in RemoveInputs :
               (KeepsClean(ob, u) /\ Some(u.price) \in {get_best_bid(ob), get_best_ask(ob)})
                   => BestCorrect(apply_update(ob, u))

\* C3: aggregate correctness. In every reachable state get_total_quantity(side)
\* is the sum of the quantities stored in the slots of that side.
C3_AggregateCorrect ==
    \A side \in Side :
        get_total_quantity(ob, side) = SumOver(Quantities(ob, side), Slots)

\* C4: round trip. From every reachable state, Set{p, q, side} followed by
\* Remove{p, side} leaves the best and the total of the side as they were and
\* get_quantity_at(p, side) = None. (Stated for a price whose slot is empty
\* before the Set, since only then can the state before have no level at p,
\* and for the sequences on which no two prices ever meet in a slot and no
\* sentinel price is used.)
C4_RoundTrip ==
    \A u \in SetInputs :
        (Clean /\ KeepsClean(ob, u) /\ get_quantity_at(ob, u.price, u.side) = None) =>
            LET after == apply_update(apply_update(ob, u), Remove(u.price, u.side))
            IN  /\ get_best_bid(after) = get_best_bid(ob)
                /\ get_best_ask(after) = get_best_ask(ob)
                /\ get_total_quantity(after, u.side) = get_total_quantity(ob, u.side)
                /\ get_quantity_at(after, u.price, u.side) = None

\* C5: idempotence. From every reachable state in which the run can make
\* another call, applying the same Set (with a zero or a positive quantity)
\* twice leaves the book exactly as applying it once does.
C5_SetIdempotent ==
    nops < MaxOps =>
        \A u \in SetInputs :
            LET once == apply_update(ob, u)
            IN  apply_update(once, u) = once

\* The slot of the update holds exactly what the update writes.
Holds(self, u) ==
    /\ Prices(self, u.side)[SlotIndex(u.price)] = u.price
    /\ Quantities(self, u.side)[SlotIndex(u.price)] = u.quantity

\* C5 witness: the book is the result of a positive Set (its slot holds that
\* price and quantity, beside another level of the side) and of a zero Set
\* (its slot holds that non-zero price and no quantity).
C5_Witness ==
    /\ \E u \in SetInputs : /\ u.quantity > 0
                            /\ Holds(ob, u)
                            /\ get_total_quantity(ob, u.side) # u.quantity
    /\ \E u \in SetInputs : u.quantity = 0 /\ u.price # 0 /\ Holds(ob, u)

\* C6: get_top_levels(side, n) returns at most n entries, n = 0 included.
C6_TopLevelsAtMostN ==
    \A side \in Side : \A n \in NInputs : Len(get_top_levels(ob, side, n)) <= n

\* The result of get_top_levels is ordered best-first, holds only occupied
\* levels, and no occupied price outside it is better than a returned one.
TopLevelsBestFirst(self, side, n) ==
    LET out == get_top_levels(self, side, n)
        returned == {out[k][1] : k \in 1..Len(out)}
        better(a, b) == IF side = "Bid" THEN a > b ELSE a < b
    IN  /\ \A k \in 1..(Len(out) - 1) : better(out[k][1], out[k + 1][1])
        /\ \A k \in 1..Len(out) :
               \E i \in OccupiedSlots(self, side) :
                   out[k] = <<Prices(self, side)[i], Quantities(self, side)[i]>>
        /\ \A x \in OccupiedPrices(self, side) \ returned :
               \A y \in returned : ~better(x, y)

\* C7: in every state reached without two live prices sharing a masked index,
\* get_top_levels(side, n) returns occupied levels in strictly best-first
\* order, and no occupied price left out is better than a returned one.
\* (Stated for the sequences on which, moreover, no zero-quantity update
\* lands on a live slot of another price and no sentinel price is used.)
C7_TopLevelsBestFirst ==
    Clean =>
        \A side \in Side : \A n \in NInputs : TopLevelsBestFirst(ob, side, n)

\* C8: from every reachable state in which the run can make another call,
\* right after Set{p, q, side} with q > 0 get_quantity_at(p, side) is Some(q);
\* right after Set{p, 0, side} or Remove{p, side} it is None, and these two
\* leave identical books.
C8_QuantityAfterUpdate ==
    nops < MaxOps =>
        \A r \in RemoveInputs :
            LET removed == apply_update(ob, r)
            IN  /\ get_quantity_at(removed, r.price, r.side) = None
                /\ \A q \in QuantityInputs :
                       LET set == apply_update(ob, Set(r.price, q, r.side))
                       IN  IF q > 0
                           THEN get_quantity_at(set, r.price, r.side) = Some(q)
                           ELSE set = removed

\* C8 witness: a Set of the largest quantity has overwritten a live level of
\* an aliasing price and is read back, and a slot of the other side that was
\* written holds no quantity.
C8_Witness ==
    /\ aliased
    /\ \E u \in SetInputs : /\ u.quantity = U64_MAX
                            /\ Holds(ob, u)
                            /\ get_quantity_at(ob, u.price, u.side) = Some(U64_MAX)
                            /\ \E v \in RemoveInputs : /\ v.side # u.side
                                                       /\ v.price # 0
                                                       /\ Holds(ob, v)

\* C9: get_spread() is None when either best is None, and otherwise
\* Some(get_best_ask() - get_best_bid()).
C9_Spread ==
    LET bid == get_best_bid(ob)
        ask == get_best_ask(ob)
    IN  get_spread(ob) = IF bid = None \/ ask = None THEN None
                         ELSE Some(ask[2] - bid[2])

\* C10: every call completes with an exact result: no step of a side total
\* leaves the u64 range and best_ask - best_bid does not leave the i64 range.
C10_ExactArithmetic ==
    /\ ~panicked
    /\ ~wrapped
    /\ ~spread_overflows(ob)

\* The cached best of a side, sentinel included.
Best(self, side) == IF side = "Bid" THEN self.best_bid ELSE self.best_ask
\* The value of the cached best that is read as None.
Sentinel(side) == IF side = "Bid" THEN I64_MIN ELSE I64_MAX

\* The update writes a zero quantity over an occupied slot and its price is
\* the cached best of its side: update_bid / update_ask recompute the best.
RecomputesBest(self, update) ==
    /\ WrittenQuantity(update) = 0
    /\ Quantities(self, update.side)[SlotIndex(update.price)] > 0
    /\ update.price = Best(self, update.side)

\* The best of side in `after` is the price stored in the occupied slot with
\* the highest (bid) or lowest (ask) index, when there is an occupied slot.
BestFromOutermostSlot(after, side) ==
    LET occ == OccupiedSlots(after, side)
    IN  occ # {} =>
            Best(after, side) = Prices(after, side)[IF side = "Bid" THEN MaxOf(occ)
                                                                     ELSE MinOf(occ)]

\* C11: best recomputation. When a zero-quantity update empties an occupied
\* slot and its price is the cached best of the side, the new best bid is the
\* price stored in the occupied bid slot of highest index, the new best ask
\* the price stored in the occupied ask slot of lowest index, and the new best
\* is the sentinel iff the root word of the side is 0.
C11_BestRecomputation ==
    \A u \in UpdateInputs :
        RecomputesBest(ob, u) =>
            LET after == apply_update(ob, u)
            IN  /\ BestFromOutermostSlot(after, u.side)
                /\ Best(after, u.side) = Sentinel(u.side)
                       <=> Root(after, u.side) = {}

\* The price is strictly better than the best of the side: higher for a
\* bid, lower for an ask.
Better(side, price, best) == IF side = "Bid" THEN price > best ELSE price < best

\* What C12 says of one update applied to self.
BestFrame(self, u) ==
    LET after == apply_update(self, u)
        best == Best(self, u.side)
    IN  IF WrittenQuantity(u) > 0
        THEN Best(after, u.side) = IF Better(u.side, u.price, best) THEN u.price
                                                                     ELSE best
        ELSE RecomputesBest(self, u) \/ Best(after, u.side) = best

\* C12: the cached best of a side changes in two cases only. From every
\* reachable state in which the run can make another call, a Set with a
\* positive quantity makes its price the best if it is strictly better than
\* the cached best and leaves the best unchanged otherwise, and a
\* zero-quantity update leaves it unchanged unless it empties an occupied
\* slot and its price is the cached best (which recomputes the best).
C12_BestFrame ==
    nops < MaxOps => \A u \in UpdateInputs : BestFrame(ob, u)

\* C12 witness: the run can go on from a book with two live bids, where a
\* positive Set at a better price, a positive Set at a worse price, a zero
\* update on the worse live level, a zero update on an empty slot and a zero
\* update on the best level are all possible, the last one changing the best.
C12_Witness ==
    /\ nops < MaxOps
    /\ Cardinality(OccupiedSlots(ob, "Bid")) = 2
    /\ \E u \in SetInputs : /\ u.side = "Bid" /\ u.quantity > 0
                            /\ Better("Bid", u.price, ob.best_bid)
    /\ \E u \in SetInputs : /\ u.side = "Bid" /\ u.quantity > 0
                            /\ ~Better("Bid", u.price, ob.best_bid)
    /\ \E u \in RemoveInputs : /\ u.side = "Bid" /\ u.price # ob.best_bid
                               /\ ob.bid_quantities[SlotIndex(u.price)] > 0
    /\ \E u \in RemoveInputs : /\ u.side = "Bid"
                               /\ ob.bid_quantities[SlotIndex(u.price)] = 0
    /\ \E u \in RemoveInputs : /\ RecomputesBest(ob, u) /\ u.side = "Bid"
                               /\ apply_update(ob, u).best_bid \notin {ob.best_bid, I64_MIN}

\* The update writes a zero quantity to a slot whose quantity is already 0.
ZeroOnEmpty(self, update) ==
    /\ WrittenQuantity(update) = 0
    /\ Quantities(self, update.side)[SlotIndex(update.price)] = 0

\* self with the price of the update echoed in its slot, and nothing else.
PriceEchoed(self, update) ==
    IF update.side = "Bid"
    THEN [self EXCEPT !.bid_prices[SlotIndex(update.price)] = update.price]
    ELSE [self EXCEPT !.ask_prices[SlotIndex(update.price)] = update.price]

\* C13: from every reachable state in which the run can make another call, a
\* zero-quantity update (Set with quantity 0, or Remove) that lands on a slot
\* whose quantity is 0 changes only the price stored in that slot: totals,
\* bitmaps, bests and all other slots stay as they are.
C13_ZeroOnEmptySlot ==
    nops < MaxOps =>
        \A u \in UpdateInputs :
            ZeroOnEmpty(ob, u) => apply_update(ob, u) = PriceEchoed(ob, u)

\* C13 witness: after two calls one bid is live and is the best, and another
\* bid slot holds an echoed non-zero price with no quantity: one of the two
\* calls was a zero-quantity update on an empty slot.
C13_Witness ==
    /\ nops = 2
    /\ \E i \in OccupiedSlots(ob, "Bid") :
           /\ ob.best_bid = ob.bid_prices[i]
           /\ ob.total_bid_qty = ob.bid_quantities[i]
    /\ \E i \in Slots : ob.bid_quantities[i] = 0 /\ ob.bid_prices[i] # 0

\* C14: for every start_idx in 0..CAP and every reachable ask bitmap,
\* find_next_lowest_active_idx(start_idx) completes and returns the smallest
\* occupied ask slot index strictly greater than start_idx, or None when no
\* occupied ask slot lies above start_idx.
C14_NextLowestActive ==
    \A start_idx \in Slots :
        LET above == {i \in OccupiedSlots(ob, "Ask") : i > start_idx}
        IN  \A outcome \in find_next_lowest_outcomes(ob, start_idx) :
                outcome = IF above = {} THEN None ELSE Some(MinOf(above))

\* C15: for every start_idx in 0..CAP and every bid bitmap a caller can read,
\* find_next_highest_active_idx(start_idx) returns the largest occupied bid
\* slot index strictly less than start_idx, or None when no occupied bid slot
\* lies below start_idx.
C15_NextHighestActive ==
    LET occupied == OccupiedSlots(ob, "Bid")
    IN  \A start_idx \in Slots :
            LET below == {i \in occupied : i < start_idx}
            IN  find_next_highest_active_idx(ob, start_idx) =
                    IF below = {} THEN None ELSE Some(MaxOf(below))

\* C15 witness: bids are live in the two slots of the first L1 word and in the
\* last slot. The scan from the last slot skips two empty words, the scan from
\* the first bit of the second word (start_idx mod WORD_BITS = 0) falls back
\* to the first word, the scan from slot 1 stays in its word, and the scan
\* from slot 0 finds nothing though the occupied last slot is at the far end.
C15_Witness ==
    /\ OccupiedSlots(ob, "Bid") = {0, 1, CAP - 1}
    /\ find_next_highest_active_idx(ob, CAP - 1) = Some(1)
    /\ find_next_highest_active_idx(ob, WORD_BITS) = Some(1)
    /\ find_next_highest_active_idx(ob, 1) = Some(0)
    /\ find_next_highest_active_idx(ob, 0) = None

\* out holds count entries, each the (price, quantity) pair stored in an
\* occupied slot of the side, no slot twice.
DistinctLevels(self, side, out, count) ==
    /\ Len(out) = count
    /\ \A k \in 1..Len(out) :
           LET i == SlotIndex(out[k][1])
           IN  /\ Quantities(self, side)[i] # 0
               /\ out[k] = <<Prices(self, side)[i], Quantities(self, side)[i]>>
    /\ \A k1, k2 \in 1..Len(out) :
           k1 # k2 => SlotIndex(out[k1][1]) # SlotIndex(out[k2][1])

\* C16: in every book a caller can read, get_top_levels(side, n) with n >= 1 and a
\* cached best other than the sentinel returns exactly min(n, number of
\* occupied slots of the side) entries, each the (price, quantity) pair of an
\* occupied slot and no slot twice; with the sentinel as cached best it
\* returns the empty sequence.
C16_TopLevelsExact ==
    \A side \in Side :
        LET occupied == Cardinality(OccupiedSlots(ob, side))
        IN  \A n \in NInputs :
                LET out == get_top_levels(ob, side, n)
                IN  IF Best(ob, side) = Sentinel(side) THEN out = <<>>
                    ELSE n >= 1 =>
                             DistinctLevels(ob, side, out,
                                            IF n < occupied THEN n ELSE occupied)

\* C16 witness: three asks are live and the best one is not in the lowest
\* occupied slot, so the walk wraps from the last slot to slot 0; asked for 2
\* levels it stops early, asked for MaxN it goes round and returns all three.
\* The bid side has the sentinel as best.
C16_Witness ==
    /\ Cardinality(OccupiedSlots(ob, "Ask")) = 3
    /\ ob.best_ask # I64_MAX
    /\ SlotIndex(ob.best_ask) > MinOf(OccupiedSlots(ob, "Ask"))
    /\ Len(get_top_levels(ob, "Ask", 2)) = 2
    /\ Len(get_top_levels(ob, "Ask", MaxN)) = 3
    /\ ob.best_bid = I64_MIN
    /\ get_top_levels(ob, "Bid", MaxN) = <<>>

\* C17: in every state reached by updates that never met another price in a
\* live slot and never used a sentinel price (so that no two live prices share
\* a masked index, and the live prices of a side are exactly the prices of
\* its occupied slots), get_quantity_at(p, side) is None for every price p
\* that has no live level on that side.
C17_NoQuantityOfOtherPrice ==
    Clean =>
        \A side \in Side : \A p \in Price :
            p \notin OccupiedPrices(ob, side) => get_quantity_at(ob, p, side) = None

\* All the state of one side.
SideState(self, side) ==
    <<Best(self, side), get_total_quantity(self, side), Root(self, side),
      L2(self, side), L1(self, side), Quantities(self, side), Prices(self, side)>>

OtherSide(side) == IF side = "Bid" THEN "Ask" ELSE "Bid"

\* C18: side independence. From every reachable state in which the run can
\* make another call, an update of one side leaves the best, the total, the
\* root, L2 and L1 words, the quantities and the prices of the other side
\* unchanged (every read of a single side is a function of these).
C18_SideIndependence ==
    nops < MaxOps =>
        \A u \in UpdateInputs :
            SideState(apply_update(ob, u), OtherSide(u.side))
                = SideState(ob, OtherSide(u.side))

\* C18 witness: the run can go on from a book with a live level on each side,
\* where some Remove of the ask side empties the ask side and some Set of the
\* bid side changes the best bid and the bid total.
C18_Witness ==
    /\ nops < MaxOps
    /\ OccupiedSlots(ob, "Bid") # {}
    /\ OccupiedSlots(ob, "Ask") # {}
    /\ \E u \in RemoveInputs : /\ u.side = "Ask"
                               /\ apply_update(ob, u).root_ask = {}
                               /\ apply_update(ob, u).best_ask # ob.best_ask
    /\ \E u \in SetInputs : /\ u.side = "Bid"
                            /\ apply_update(ob, u).best_bid # ob.best_bid
                            /\ apply_update(ob, u).total_bid_qty # ob.total_bid_qty

\* The best read of a side.
get_best(self, side) == IF side = "Bid" THEN get_best_bid(self) ELSE get_best_ask(self)

\* The best of the side is None iff no slot of the side holds a quantity, and
\* when it is Some(p) the slot of p stores p with a non-zero quantity.
BestLive(self, side) ==
    /\ get_best(self, side) = None <=> OccupiedSlots(self, side) = {}
    /\ get_best(self, side) # None =>
           LET p == get_best(self, side)[2]
           IN  /\ Prices(self, side)[SlotIndex(p)] = p
               /\ Quantities(self, side)[SlotIndex(p)] # 0

\* C19: no stale or missing best. In every state reached by updates each of
\* which landed on an empty slot or on a slot storing its own price, none with
\* the sentinel price of its side, get_best_bid() / get_best_ask() is None
\* iff the side has no slot with a non-zero quantity, and when it is Some(p)
\* the slot p & MASK of the side stores p with a non-zero quantity.
C19_NoStaleBest ==
    Clean => \A side \in Side : BestLive(ob, side)

\* C19 witness: after such updates two bids are live, the best one in the
\* lower slot (the two prices are in different windows), and the run can
\* remove the best with a clean update, which recomputes the best to the
\* other live price.
C19_Witness ==
    /\ Clean
    /\ nops < MaxOps
    /\ Cardinality(OccupiedSlots(ob, "Bid")) = 2
    /\ SlotIndex(ob.best_bid) = MinOf(OccupiedSlots(ob, "Bid"))
    /\ \E u \in RemoveInputs :
           /\ KeepsClean(ob, u)
           /\ RecomputesBest(ob, u)
           /\ u.side = "Bid"
           /\ apply_update(ob, u).best_bid \in OccupiedPrices(ob, "Bid") \ {ob.best_bid}

\* C20: best correctness inside one price window. In every state reached by
\* updates whose prices all lie in a single aligned window
\* [k * CAP, (k + 1) * CAP), get_best_bid() is the maximum live bid price and
\* get_best_ask() the minimum live ask price (None when the side is empty).
\* (Within one window each slot belongs to one price, so the live prices are
\* the prices of the occupied slots.)
C20_BestCorrectInWindow ==
    Cardinality(windows) <= 1 => BestCorrect(ob)

====
